---- MODULE Spec2Model ----
(***************************************************************************)
(* The annotation synchronisation protocol of label_app/views.py:         *)
(* get_annotation_xml (export) and post_annotation_xml (import) acting on  *)
(* one Annotation row and its Polygon rows, as concurrent requests.        *)
(***************************************************************************)
EXTENDS Integers, Sequences, FiniteSets, TLC

VARIABLES
    anno,     \* the Annotation row of (request.user, image 1)
    polys,    \* the Polygon table: a sequence of rows, pk = position
    clock,    \* datetime.now(): the time of the latest write
    keys,     \* number of edit keys drawn so far by secrets.token_bytes
    issued,   \* the edit keys sent to a client in a document
    lock,     \* request holding the select_for_update row lock, or NoProc
    pc,       \* each request slot's position in its handler
    loc,      \* each request slot's local variables
    res,      \* how each request slot's request ended
    nreq      \* requests started so far, by kind

vars == <<anno, polys, clock, keys, issued, lock, pc, loc, res, nreq>>

----------------------------------------------------------------------------
\* Bounds of the model.

MaxExports == 2
MaxImports == 2
MaxAdmin == 1
MaxChildren == 2
MaxPlainChildren == 1

\* Python's None (an absent c_poly_id, a null anno_index).
None == -1
\* The text of an element that is present but empty (ElementTree yields None).
NoText == "<None>"

\* Two requests at most are in progress at a time; a request takes the first
\* free slot.
Procs == {"r1", "r2"}
FreeSlot(p, pcs) == pcs[p] = "idle" /\ (p = "r1" \/ pcs["r1"] # "idle")
NoProc == "none"

\* The Annotation of request.user for image 1 has this pk.
AnnoId == 1
\* An Annotation of another user, owning one Polygon.
OtherAnnoId == 2

\* image_mgr Image rows: pk |-> visible. Image 3 does not exist.
Images == (1 :> TRUE) @@ (2 :> FALSE)

----------------------------------------------------------------------------
\* Rows.

\* A Polygon row. index_key is no column: it records, for the properties, the
\* edit key of the import that set anno_index (None with a null anno_index).
PolygonRow(annotation, anno_index, label, notes, occluded, points, deleted, t) ==
    [annotation |-> annotation, anno_index |-> anno_index, label_as_str |-> label,
     notes |-> notes, occluded |-> occluded, points |-> points,
     deleted |-> deleted, last_edit_time |-> t, index_key |-> None]

\* A coordinate is held in thousandths; "{:.2f}".format keeps two decimals.
Round2(v) == ((v + 5) \div 10) * 10

NoLocals ==
    [anno_id |-> None, edit_key |-> None, anno_polygons |-> <<>>,
     polygons |-> <<>>, by_index |-> <<>>, annotation |-> <<>>]

\* How a request ended: the response or the message of the exception raised,
\* the message of the exception it was raised from, and the number of
\* "poly changed!!" lines printed.
Outcome(status, cause, printed) ==
    [status |-> status, cause |-> cause, printed |-> printed]

----------------------------------------------------------------------------
\* The document parser and validator (process_annotation_xml, before the
\* transaction).

\* Text on which int() or bytes.fromhex() raises.
Unparsable == -2
\* find() of an element the document does not hold.
Missing == "<missing>"

\* The same without the check against the ids seen.
PolyIdCauseNoDuplicate(obj, anno_poly_ids) ==
    IF obj.c_poly_id = Unparsable THEN "ValueError" ELSE "ok"

\* int(obj_tag.find("c_poly_id").text) and the check against the ids seen.
PolyIdCause(obj, anno_poly_ids) ==
    IF obj.c_poly_id = None THEN "ok"
    ELSE IF obj.c_poly_id = Unparsable THEN "ValueError"
    ELSE IF obj.c_poly_id \in anno_poly_ids THEN "duplicate id"
    ELSE "ok"

\* The checks of one <object>, in the order of the code: "ok" or the message
\* of the first exception.
ObjectCause(obj, anno_poly_ids) ==
    LET id_cause == PolyIdCause(obj, anno_poly_ids)
    IN
    IF id_cause # "ok" THEN id_cause
    ELSE IF obj.name = Missing THEN "AttributeError"
    ELSE IF obj.name = "" THEN "empty name"
    ELSE IF obj.deleted = Unparsable THEN "ValueError"
    ELSE IF obj.deleted \notin {0, 1} THEN "bad deleted"
    ELSE IF obj.occluded \notin {"no", "yes"} THEN "bad occluded"
    ELSE IF ~obj.pts_ok THEN "bad points"
    ELSE "ok"

\* The SimpleNamespace built for one <object>.
ParseObject(obj, curr_index) ==
    [id |-> obj.c_poly_id,
     index |-> curr_index,
     name |-> obj.name,
     deleted |-> (obj.deleted # 0),
     occluded |-> (obj.occluded # "no"),
     attributes |-> IF obj.attributes \in {Missing, NoText}
                    THEN "" ELSE obj.attributes,
     points |-> [k \in DOMAIN obj.pts |-> Round2(obj.pts[k])]]

\* The loop over root.findall("object"): the list anno_polygons, or the cause
\* of the failure.
RECURSIVE ParseObjects(_, _, _, _)
ParseObjects(objects, i, acc, anno_poly_ids) ==
    IF i > Len(objects) THEN [cause |-> "ok", anno_polygons |-> acc]
    ELSE LET cause == ObjectCause(objects[i], anno_poly_ids)
         IN  IF cause # "ok" THEN [cause |-> cause, anno_polygons |-> <<>>]
             ELSE ParseObjects(objects, i + 1,
                               Append(acc, ParseObject(objects[i], i - 1)),
                               IF objects[i].c_poly_id = None THEN anno_poly_ids
                               ELSE anno_poly_ids \cup {objects[i].c_poly_id})

\* Lines 207-214: "ok" or the exception raised inside the try.
ImageCause(filename) ==
    IF filename.pre # "img" \/ filename.ext # ".jpg" THEN "invalid filename"
    ELSE IF filename.num = Unparsable THEN "ValueError"
    ELSE IF filename.num \notin DOMAIN Images THEN "Image.DoesNotExist"
    ELSE IF ~Images[filename.num] THEN "invisible image"
    ELSE "ok"

\* Lines 220-224: int(c_anno_id), then
\* Annotation.objects.get(annotator=user, image=image, locked=False, deleted=False).
AnnotationCause(doc, row) ==
    IF doc.c_anno_id = Unparsable THEN "ValueError"
    ELSE IF doc.filename.num # 1 \/ row.locked \/ row.deleted
         THEN "Annotation.DoesNotExist"
    ELSE "ok"

\* A comparison that lets every edit key pass.
KeyNeverDiffers(edit_key, row) == FALSE

\* edit_key != bytes(annotation.edit_key)
KeyDiffers(edit_key, row) == edit_key # row.edit_key

\* Lines 233-235.
EditKeyCause(doc, row) ==
    IF doc.edit_key = Unparsable THEN "ValueError"
    ELSE IF KeyDiffers(doc.edit_key, row) THEN "edit key does not match"
    ELSE "ok"

\* Everything up to the list of polygons: "ok", or the message of the
\* SuspiciousOperation raised and of the exception it is raised from.
ParseOutcome(doc, row) ==
    IF ~doc.wellformed THEN Outcome("xml parse failed", "ParseError", 0)
    ELSE IF doc.root # "annotation" THEN Outcome("not an annotation", "", 0)
    ELSE IF ImageCause(doc.filename) # "ok"
         THEN Outcome("invalid image", ImageCause(doc.filename), 0)
    ELSE IF AnnotationCause(doc, row) # "ok"
         THEN Outcome("invalid anno id", AnnotationCause(doc, row), 0)
    ELSE IF EditKeyCause(doc, row) # "ok"
         THEN Outcome("invalid edit key", EditKeyCause(doc, row), 0)
    ELSE LET cause == ParseObjects(doc.objects, 1, <<>>, {}).cause
         IN  IF cause # "ok" THEN Outcome("invalid polygon", cause, 0)
             ELSE Outcome("ok", "", 0)

----------------------------------------------------------------------------
\* Reconciliation and commit (process_annotation_xml, inside the transaction).

\* annotation.polygons.filter(deleted=False): the pks of the rows read.
VisiblePks(table, annotation_pk) ==
    {pk \in DOMAIN table : table[pk].annotation = annotation_pk /\ ~table[pk].deleted}

\* polygons_by_id: the Polygon objects loaded, by pk.
PolygonsById(table, annotation_pk) ==
    [pk \in VisiblePks(table, annotation_pk) |-> table[pk]]

\* polygons_by_index: anno_index |-> pk of the object. The queryset has no
\* order, so with two objects of one index either may be the one kept.
PolygonsByIndex(objs) ==
    LET idx == {objs[pk].anno_index : pk \in DOMAIN objs} \ {None}
    IN  {f \in [idx -> DOMAIN objs] : \A k \in idx : objs[f[k]].anno_index = k}

\* A comparison that finds every matched object changed.
PolygonChangedAlways(poly, anno_poly) == TRUE

\* The elif chain deciding polygon_changed for a matched object.
PolygonChanged(poly, anno_poly) ==
    \/ poly.label_as_str # anno_poly.name
    \/ poly.notes # anno_poly.attributes
    \/ poly.occluded # anno_poly.occluded
    \/ poly.points # anno_poly.points
    \/ poly.deleted # anno_poly.deleted

\* The assignments made to a changed object before poly.save().
UpdatedPolygon(poly, anno_poly, now) ==
    [poly EXCEPT !.label_as_str = anno_poly.name,
                 !.notes = anno_poly.attributes,
                 !.occluded = anno_poly.occluded,
                 !.points = anno_poly.points,
                 !.deleted = anno_poly.deleted,
                 !.last_edit_time = now]

\* A new Polygon that does not record its index.
NewPolygonNoIndex(annotation_pk, anno_poly) ==
    PolygonRow(annotation_pk, None, "", "", FALSE, <<>>, FALSE, 0)

\* models.Polygon(annotation=annotation, anno_index=anno_poly.index).
NewPolygon(annotation_pk, anno_poly) ==
    PolygonRow(annotation_pk, anno_poly.index, "", "", FALSE, <<>>, FALSE, 0)

\* A lookup that takes a child whose id is not found for a new polygon.
MatchMissingIsNew(anno_poly, objs, by_index) ==
    IF anno_poly.id # None /\ anno_poly.id \in DOMAIN objs
    THEN [kind |-> "found", pk |-> anno_poly.id]
    ELSE IF anno_poly.id = None /\ anno_poly.index \in DOMAIN by_index
    THEN [kind |-> "found", pk |-> by_index[anno_poly.index]]
    ELSE [kind |-> IF anno_poly.deleted THEN "skip" ELSE "new", pk |-> None]

\* A lookup that tries the index before the id.
MatchIndexFirst(anno_poly, objs, by_index) ==
    IF anno_poly.index \in DOMAIN by_index
    THEN [kind |-> "found", pk |-> by_index[anno_poly.index]]
    ELSE IF anno_poly.id # None /\ anno_poly.id \in DOMAIN objs
    THEN [kind |-> "found", pk |-> anno_poly.id]
    ELSE IF anno_poly.deleted THEN [kind |-> "skip", pk |-> None]
    ELSE IF anno_poly.id # None THEN [kind |-> "raise", pk |-> None]
    ELSE [kind |-> "new", pk |-> None]

\* The object a child is matched to: "found" with the pk of the object, "new",
\* "skip" (continue) or "raise" (the KeyError that leaves the loop).
Match(anno_poly, objs, by_index) ==
    IF anno_poly.id # None
    THEN IF anno_poly.id \in DOMAIN objs
         THEN [kind |-> "found", pk |-> anno_poly.id]
         ELSE [kind |-> IF anno_poly.deleted THEN "skip" ELSE "raise", pk |-> None]
    ELSE IF anno_poly.index \in DOMAIN by_index
         THEN [kind |-> "found", pk |-> by_index[anno_poly.index]]
         ELSE [kind |-> IF anno_poly.deleted THEN "skip" ELSE "new", pk |-> None]

\* One pass of the loop body. st holds the table as the transaction sees it
\* (db), the loaded objects (objs), the time, annotation_changed, the lines
\* printed, whether an exception has left the loop, and the edit key of the
\* document (key).
ApplyOne(anno_poly, st, by_index) ==
    LET m == Match(anno_poly, st.objs, by_index)
        now == st.now + 1
    IN  IF m.kind = "raise" THEN [st EXCEPT !.raised = TRUE]
        ELSE IF m.kind = "skip" THEN st
        ELSE IF m.kind = "new"
        THEN [st EXCEPT
                !.db = Append(st.db,
                    [UpdatedPolygon(NewPolygon(AnnoId, anno_poly), anno_poly, now)
                        EXCEPT !.index_key = st.key]),
                !.now = now,
                !.printed = @ + 1,
                !.annotation_changed = TRUE]
        ELSE IF PolygonChanged(st.objs[m.pk], anno_poly)
        THEN LET poly == UpdatedPolygon(st.objs[m.pk], anno_poly, now)
             IN  [st EXCEPT !.db[m.pk] = poly,
                            !.objs[m.pk] = poly,
                            !.now = now,
                            !.printed = @ + 1,
                            !.annotation_changed = TRUE]
        ELSE st

RECURSIVE ApplyPolygons(_, _, _, _)
ApplyPolygons(anno_polygons, i, st, by_index) ==
    IF i > Len(anno_polygons) \/ st.raised THEN st
    ELSE ApplyPolygons(anno_polygons, i + 1,
                       ApplyOne(anno_polygons[i], st, by_index), by_index)

\* A save that also draws a new edit key.
SavedAnnotationNewKey(row, now) ==
    [row EXCEPT !.last_edit_time = now, !.edit_key = @ + 1]

\* Lines 369-370: annotation.save(update_fields=('last_edit_time',)) writes
\* that column of the row and no other.
SavedAnnotation(row, now) == [row EXCEPT !.last_edit_time = now]

\* A block whose writes stay when it raises.
NotAtomic(before, st) == st.db

\* transaction.atomic(): the table at the end of the block, which is the table
\* as it was when the block raised.
Atomic(before, st) == IF st.raised THEN before ELSE st.db

----------------------------------------------------------------------------
\* The document get_annotation_xml builds.

\* "{:.2f}".format(v): the text of a coordinate, held as the value it reads as.
Format2(v) == ((v + 5) \div 10) * 10

\* Lines 152-184: the <object> written for one polygon, as the parser of the
\* import reads it back (an element written with no text reads as None;
\* xml_escape is undone by the XML parser).
ExportedObject(pk, polygon) ==
    [c_poly_id |-> pk,
     name |-> IF polygon.label_as_str = "" THEN NoText ELSE polygon.label_as_str,
     deleted |-> 0,
     occluded |-> IF polygon.occluded THEN "yes" ELSE "no",
     attributes |-> IF polygon.notes = "" THEN NoText ELSE polygon.notes,
     pts |-> [k \in DOMAIN polygon.points |-> Format2(polygon.points[k])],
     pts_ok |-> TRUE]

\* xml_escape(polygon.label_as_str) raises on a label that is None.
Escapable(objs) == \A pk \in DOMAIN objs : objs[pk].label_as_str # NoText

\* The lists of <object> of the document built from the polygons objs: the
\* queryset has no order, so any order of them.
ExportedObjects(objs) ==
    LET n == Cardinality(DOMAIN objs)
    IN  {[i \in 1..n |-> ExportedObject(f[i], objs[f[i]])] :
            f \in {g \in [1..n -> DOMAIN objs] :
                      \A i, j \in 1..n : i # j => g[i] # g[j]}}

----------------------------------------------------------------------------
\* Documents a client may post.

Obj(c_poly_id, name, deleted) ==
    [c_poly_id |-> c_poly_id, name |-> name, deleted |-> deleted,
     occluded |-> "no", attributes |-> "", pts |-> <<>>, pts_ok |-> TRUE]

Doc(edit_key, objects) ==
    [wellformed |-> TRUE, root |-> "annotation",
     filename |-> [pre |-> "img", num |-> 1, ext |-> ".jpg"],
     c_anno_id |-> AnnoId, edit_key |-> edit_key, objects |-> objects]

SeqsUpTo(S, n) == UNION {[1..k -> S] : k \in 0..n}

\* The children of the documents posted by concurrent sessions: the stored
\* Polygon 1 or a new polygon, relabelled or deleted.
PlainObjects ==
    {Obj(id, name, deleted) :
        id \in {None, 1}, name \in {"a", "b"}, deleted \in {0, 1}}

\* A client holds an edit key that some document gave it.
PlainDocs(known) ==
    {Doc(k, objs) : k \in known, objs \in SeqsUpTo(PlainObjects, MaxPlainChildren)}

\* The Polygon table at the start: Polygon 1 of the Annotation, Polygon 2 of
\* another user's Annotation.
InitPolys ==
    << PolygonRow(AnnoId, None, "a", "", FALSE, <<>>, FALSE, 0),
       PolygonRow(OtherAnnoId, None, "a", "", FALSE, <<>>, FALSE, 0) >>

\* The pk the first Polygon created gets.
FirstNewPk == Len(InitPolys) + 1

\* The children of the documents one session may post.
CoreObjects ==
    {Obj(id, name, deleted) :
        id \in {None, 1, FirstNewPk}, name \in {"a", "b"}, deleted \in {0, 1}}

\* Every other field at each of its values, one at a time.
FieldObjects ==
    UNION {{[o EXCEPT !.occluded = "yes"],
            [o EXCEPT !.attributes = "n"],
            [o EXCEPT !.attributes = Missing],
            [o EXCEPT !.pts = <<1004, 2000>>],
            [o EXCEPT !.pts = <<1000, 2000>>],
            [o EXCEPT !.name = NoText]} : o \in {Obj(None, "a", 0), Obj(1, "a", 0)}}
    \cup {Obj(None, NoText, 1)}

\* A claimed identity the Annotation has no Polygon of.
ForeignObjects == {Obj(2, "a", deleted) : deleted \in {0, 1}}

InvalidObjects ==
    LET o == Obj(None, "a", 0)
    IN  {[o EXCEPT !.c_poly_id = Unparsable],
         [o EXCEPT !.name = Missing],
         [o EXCEPT !.deleted = 2],
         [o EXCEPT !.deleted = Unparsable],
         [o EXCEPT !.occluded = "maybe"],
         [o EXCEPT !.pts_ok = FALSE]}

\* The lists of children: up to MaxChildren core children, or one of the
\* others alone, before or after a polygon that would be new.
RichObjectLists ==
    SeqsUpTo(CoreObjects, MaxChildren)
    \cup UNION {{<<o>>, <<o, Obj(None, "b", 0)>>, <<Obj(None, "b", 0), o>>} :
                   o \in FieldObjects \cup ForeignObjects \cup InvalidObjects}

\* The edit key of the latest document sent.
LatestKey(known) == CHOOSE k \in known : \A j \in known : j <= k

\* Documents whose header fails one check, holding a polygon that would be new.
BadHeaderDocs(known) ==
    LET d == Doc(LatestKey(known), <<Obj(None, "b", 0)>>)
    IN  {[d EXCEPT !.wellformed = FALSE],
         [d EXCEPT !.root = "html"],
         [d EXCEPT !.filename.pre = "pic"],
         [d EXCEPT !.filename.num = Unparsable],
         [d EXCEPT !.filename.num = 2],
         [d EXCEPT !.filename.num = 3],
         [d EXCEPT !.c_anno_id = Unparsable],
         [d EXCEPT !.c_anno_id = OtherAnnoId],
         [d EXCEPT !.edit_key = Unparsable]}
        \cup {[d EXCEPT !.edit_key = k] : k \in known}

\* One session posts the edit key of the latest document it got, with any
\* children, or a document whose header fails.
RichDocs(known) ==
    {Doc(LatestKey(known), objs) : objs \in RichObjectLists}
    \cup BadHeaderDocs(known)

\* The document an export of the table would send, posted back unmodified
\* with the edit key of the latest document.
ExportedDocs(known, table) ==
    LET objs == PolygonsById(table, AnnoId)
    IN  IF Escapable(objs)
        THEN {Doc(LatestKey(known), objects) : objects \in ExportedObjects(objs)}
        ELSE {}

----------------------------------------------------------------------------
\* The state after construction: the Annotation as an earlier export left it.

Init ==
    /\ anno = [edit_key |-> 0, locked |-> FALSE, deleted |-> FALSE,
               last_edit_time |-> 0]
    /\ polys = InitPolys
    /\ clock = 0
    /\ keys = 0
    /\ issued = {0}
    /\ lock = NoProc
    /\ pc = [p \in Procs |-> "idle"]
    /\ loc = [p \in Procs |-> NoLocals]
    /\ res = [p \in Procs |-> Outcome("none", "", 0)]
    /\ nreq = [imports |-> 0, exports |-> 0, admin |-> 0]

----------------------------------------------------------------------------------------------------------------------------------------------------
\* post_annotation_xml.

\* A row that no select_for_update keeps from being written.
RowAlwaysFree(holder) == TRUE

\* A statement that writes the Annotation row waits while another
\* transaction holds it selected for update.
RowFree(holder) == holder = NoProc

\* Lines 203-306: validation, lookups, the optimistic edit key check, the list
\* of polygons and the Polygon objects loaded before the transaction. The
\* reads are taken at one instant: what another request writes between them
\* is written before or after them with the same result, since the first
\* reads the Annotation row alone and the second the Polygon rows alone.
ImportParse(p, doc) ==
    /\ FreeSlot(p, pc)
    /\ nreq.imports < MaxImports
    /\ nreq' = [nreq EXCEPT !.imports = @ + 1]
    /\ LET out == ParseOutcome(doc, anno)
           objs == PolygonsById(polys, AnnoId)
       IN  IF out.status = "ok"
           THEN /\ pc' = [pc EXCEPT ![p] = "imp_lock"]
                /\ \E by_index \in PolygonsByIndex(objs) :
                     loc' = [loc EXCEPT ![p] =
                       [NoLocals EXCEPT
                          !.anno_id = doc.c_anno_id,
                          !.edit_key = doc.edit_key,
                          !.anno_polygons =
                            ParseObjects(doc.objects, 1, <<>>, {}).anno_polygons,
                          !.polygons = objs,
                          !.by_index = by_index]]
                /\ res' = [res EXCEPT ![p] = Outcome("running", "", 0)]
           ELSE /\ pc' = [pc EXCEPT ![p] = "done"]
                /\ res' = [res EXCEPT ![p] = out]
                /\ UNCHANGED loc
    /\ UNCHANGED <<anno, polys, clock, keys, issued, lock>>

\* Lines 307-314: select_for_update and the authoritative edit key check.
ImportLock(p) ==
    /\ pc[p] = "imp_lock"
    /\ RowFree(lock)
    /\ IF KeyDiffers(loc[p].edit_key, anno)
       THEN /\ pc' = [pc EXCEPT ![p] = "done"]
            /\ res' = [res EXCEPT ![p] = Outcome("invalid edit key", "", 0)]
            /\ UNCHANGED lock
       ELSE /\ pc' = [pc EXCEPT ![p] = "imp_apply"]
            /\ lock' = p
            /\ UNCHANGED res
    /\ UNCHANGED <<anno, polys, clock, keys, issued, loc, nreq>>

\* The loop of lines 321-366 run on the table as it stands.
Reconcile(p) ==
    ApplyPolygons(loc[p].anno_polygons, 1,
                  [db |-> polys, objs |-> loc[p].polygons, now |-> clock,
                   printed |-> 0, annotation_changed |-> FALSE, raised |-> FALSE,
                   key |-> loc[p].edit_key],
                  loc[p].by_index)

\* Lines 318-370 and the end of the transaction.
ImportApply(p) ==
    /\ pc[p] = "imp_apply"
    /\ LET st == Reconcile(p)
           saved == ~st.raised /\ st.annotation_changed
       IN  /\ polys' = Atomic(polys, st)
           /\ anno' = IF saved THEN SavedAnnotation(anno, st.now + 1) ELSE anno
           /\ clock' = IF saved THEN st.now + 1 ELSE clock
           /\ res' = [res EXCEPT ![p] =
                  IF st.raised THEN Outcome("xml process failed", "KeyError", st.printed)
                  ELSE Outcome("ok", "", st.printed)]
    /\ lock' = NoProc
    /\ pc' = [pc EXCEPT ![p] = "done"]
    /\ UNCHANGED <<keys, issued, loc, nreq>>

\* A handler that prints the traceback and answers all the same.
PostResponseSwallowed(outcome) == [raised |-> "", content |-> "<nop/>"]

\* Lines 395-406: what post_annotation_xml hands to Django for an import that
\* ended as outcome: the exception re-raised (parse_annotation_xml lets out
\* SuspiciousOperation only), or the HttpResponse.
PostResponse(outcome) ==
    IF outcome.status = "ok"
    THEN [raised |-> "", content |-> "<nop/>"]
    ELSE [raised |-> "SuspiciousOperation", content |-> ""]

----------------------------------------------------------------------------
\* get_annotation_xml.

\* Lines 97-117: the image and the annotation object, or the failure.
ExportLookup(p, image_id) ==
    /\ FreeSlot(p, pc)
    /\ nreq.exports < MaxExports
    /\ nreq' = [nreq EXCEPT !.exports = @ + 1]
    /\ IF image_id \notin DOMAIN Images
       THEN /\ pc' = [pc EXCEPT ![p] = "done"]
            /\ res' = [res EXCEPT ![p] = Outcome("UnboundLocalError", "", 0)]
            /\ UNCHANGED loc
       ELSE IF ~Images[image_id] \/ image_id # 1 \/ anno.deleted
       THEN /\ pc' = [pc EXCEPT ![p] = "done"]
            /\ res' = [res EXCEPT ![p] = Outcome("Http404", "", 0)]
            /\ UNCHANGED loc
       ELSE /\ pc' = [pc EXCEPT ![p] = "exp_save"]
            /\ loc' = [loc EXCEPT ![p] = [NoLocals EXCEPT !.annotation = anno]]
            /\ res' = [res EXCEPT ![p] = Outcome("running", "", 0)]
    /\ UNCHANGED <<anno, polys, clock, keys, issued, lock>>

\* Lines 122-124: a fresh edit key, saved with the whole object.
ExportSave(p) ==
    /\ pc[p] = "exp_save"
    /\ RowFree(lock)
    /\ keys' = keys + 1
    /\ anno' = [loc[p].annotation EXCEPT !.edit_key = keys + 1]
    /\ loc' = [loc EXCEPT ![p].edit_key = keys + 1]
    /\ pc' = [pc EXCEPT ![p] = "exp_clear"]
    /\ UNCHANGED <<polys, clock, issued, lock, res, nreq>>

\* An update that clears no index.
ClearNothing(table, annotation_pk) == table

\* The rows left by polygons.filter(anno_index__isnull=False).update(...).
ClearIndices(table, annotation_pk) ==
    [pk \in DOMAIN table |->
        IF pk \in VisiblePks(table, annotation_pk) /\ table[pk].anno_index # None
        THEN [table[pk] EXCEPT !.anno_index = None, !.index_key = None]
        ELSE table[pk]]

\* Lines 127-130.
ExportClear(p) ==
    /\ pc[p] = "exp_clear"
    /\ polys' = ClearIndices(polys, AnnoId)
    /\ pc' = [pc EXCEPT ![p] = "exp_build"]
    /\ UNCHANGED <<anno, clock, keys, issued, lock, loc, res, nreq>>

\* Lines 133-189: the document, built from the polygons read now and sent.
ExportBuild(p) ==
    /\ pc[p] = "exp_build"
    /\ loc' = [loc EXCEPT ![p].polygons = PolygonsById(polys, AnnoId)]
    /\ IF Escapable(PolygonsById(polys, AnnoId))
       THEN /\ res' = [res EXCEPT ![p] = Outcome("200", "", 0)]
            /\ issued' = issued \cup {loc[p].edit_key}
       ELSE /\ res' = [res EXCEPT ![p] = Outcome("AttributeError", "", 0)]
            /\ UNCHANGED issued
    /\ pc' = [pc EXCEPT ![p] = "done"]
    /\ UNCHANGED <<anno, polys, clock, keys, lock, nreq>>

----------------------------------------------------------------------------
\* The end of a request: the response is sent (or the exception reaches
\* Django) and the locals are gone.
Respond(p) ==
    /\ pc[p] = "done"
    /\ pc' = [pc EXCEPT ![p] = "idle"]
    /\ loc' = [loc EXCEPT ![p] = NoLocals]
    /\ res' = [res EXCEPT ![p] = Outcome("none", "", 0)]
    /\ UNCHANGED <<anno, polys, clock, keys, issued, lock, nreq>>

----------------------------------------------------------------------------
\* The external lock / soft-delete of the Annotation.

AdminLock ==
    /\ nreq.admin < MaxAdmin
    /\ RowFree(lock)
    /\ ~anno.locked
    /\ anno' = [anno EXCEPT !.locked = TRUE]
    /\ nreq' = [nreq EXCEPT !.admin = @ + 1]
    /\ UNCHANGED <<polys, clock, keys, issued, lock, pc, loc, res>>

AdminDelete ==
    /\ nreq.admin < MaxAdmin
    /\ RowFree(lock)
    /\ ~anno.deleted
    /\ anno' = [anno EXCEPT !.deleted = TRUE]
    /\ nreq' = [nreq EXCEPT !.admin = @ + 1]
    /\ UNCHANGED <<polys, clock, keys, issued, lock, pc, loc, res>>

----------------------------------------------------------------------------
\* Concurrent sessions: two requests in progress, plain documents.

Next ==
    \/ \E p \in Procs :
          /\ FreeSlot(p, pc) /\ nreq.imports < MaxImports
          /\ \E doc \in PlainDocs(issued) : ImportParse(p, doc)
    \/ \E p \in Procs : ImportLock(p)
    \/ \E p \in Procs : ImportApply(p)
    \/ \E p \in Procs : ExportLookup(p, 1)
    \/ \E p \in Procs : ExportSave(p)
    \/ \E p \in Procs : ExportClear(p)
    \/ \E p \in Procs : ExportBuild(p)
    \/ \E p \in Procs : Respond(p)
    \/ AdminLock
    \/ AdminDelete

Spec == Init /\ [][Next]_vars

\* One session: one request at a time, any document.
NextSeq ==
    \/ /\ FreeSlot("r1", pc) /\ nreq.imports < MaxImports
       /\ \E doc \in RichDocs(issued) \cup ExportedDocs(issued, polys) :
            ImportParse("r1", doc)
    \/ ImportLock("r1")
    \/ ImportApply("r1")
    \/ \E image_id \in 1..3 : ExportLookup("r1", image_id)
    \/ ExportSave("r1")
    \/ ExportClear("r1")
    \/ ExportBuild("r1")
    \/ Respond("r1")
    \/ pc["r1"] = "idle" /\ AdminLock
    \/ pc["r1"] = "idle" /\ AdminDelete

SpecSeq == Init /\ [][NextSeq]_vars

----------------------------------------------------------------------------
\* Properties.

\* The messages of the SuspiciousOperation that ends a rejected import.
Rejections ==
    {"xml parse failed", "not an annotation", "invalid image", "invalid anno id",
     "invalid edit key", "invalid polygon", "xml process failed"}

\* The fields of the Polygon rows a client edits.
Content(table) ==
    [pk \in DOMAIN table |->
        [label_as_str |-> table[pk].label_as_str, notes |-> table[pk].notes,
         occluded |-> table[pk].occluded, points |-> table[pk].points,
         deleted |-> table[pk].deleted]]

\* The loop state when the transaction of request p starts.
LoopStart(p, objs) ==
    [db |-> polys, objs |-> objs, now |-> clock, printed |-> 0,
     annotation_changed |-> FALSE, raised |-> FALSE, key |-> loc[p].edit_key]

\* C1: an import whose edit key differs from the stored edit key when it
\* takes the row lock, or when it commits, ends as "invalid edit key" and leaves
\* the Annotation row and every Polygon row as they were; so after an export
\* has stored a new key no import with an earlier key writes anything.
C1_TokenInvalidation ==
    [][\A p \in Procs :
         (/\ pc[p] \in {"imp_lock", "imp_apply"}
          /\ pc'[p] = "done"
          /\ loc[p].edit_key # anno.edit_key)
         => (/\ res'[p].status = "invalid edit key"
             /\ anno' = anno
             /\ polys' = polys)]_vars

\* An import with the key of an earlier document was rejected under the row
\* lock, after a later export stored a new key.
C1_Witness ==
    \E p \in Procs :
        /\ pc[p] = "done"
        /\ res[p] = Outcome("invalid edit key", "", 0)
        /\ loc[p].edit_key \in issued
        /\ loc[p].edit_key < anno.edit_key
        /\ Len(loc[p].anno_polygons) > 0

\* C2: a step that ends an import with a rejection, whatever the reason,
\* leaves the Annotation row and the Polygon table exactly as they were, also
\* when the KeyError comes after earlier children were saved in the transaction.
C2_AllOrNothing ==
    [][\A p \in Procs :
         (/\ pc[p] \in {"idle", "imp_lock", "imp_apply"}
          /\ pc'[p] = "done"
          /\ res'[p].status \in Rejections)
         => (anno' = anno /\ polys' = polys)]_vars

\* An import was rejected for a missing identity after an earlier child of the
\* same document had been saved.
C2_Witness ==
    /\ pc["r1"] = "done"
    /\ res["r1"].status = "xml process failed"
    /\ res["r1"].printed >= 1

\* C3: every import that commits leaves the edited fields and the set of
\* Polygons that the same document gives when its Polygons are loaded at the
\* start of its own transaction, that is, when the imports run one after the
\* other in commit order; and it is accepted exactly when that run is.
C3_SerialCommit ==
    [][\A p \in Procs :
         (pc[p] = "imp_apply" /\ pc'[p] = "done")
         => LET objs == PolygonsById(polys, AnnoId)
            IN  \E by_index \in PolygonsByIndex(objs) :
                  LET st == ApplyPolygons(loc[p].anno_polygons, 1,
                                          LoopStart(p, objs), by_index)
                  IN  /\ Content(polys') = Content(Atomic(polys, st))
                      /\ (res'[p].status = "ok") = ~st.raised]_vars

\* C5: no two non-deleted Polygons of the Annotation hold the same non-null
\* anno_index.
C5_IndexUnique ==
    \A pk1, pk2 \in VisiblePks(polys, AnnoId) :
        (pk1 # pk2 /\ polys[pk1].anno_index # None)
        => polys[pk1].anno_index # polys[pk2].anno_index

\* C6: a Polygon whose deleted flag is set keeps it set in every later state.
C6_DeletedIsTerminal ==
    [][\A pk \in DOMAIN polys : polys[pk].deleted => polys'[pk].deleted]_vars

\* C9: an import that commits while the Annotation is locked or deleted
\* changes no Polygon row and not the Annotation row.
C9_LockedIsTerminal ==
    [][\A p \in Procs :
         (/\ pc[p] = "imp_apply"
          /\ pc'[p] = "done"
          /\ (anno.locked \/ anno.deleted))
         => (anno' = anno /\ polys' = polys)]_vars

\* C10: an import whose c_anno_id is not the pk of the requester's
\* Annotation is rejected and writes nothing.
C10_EntityIdentity ==
    [][\A p \in Procs :
         (/\ pc[p] = "imp_apply"
          /\ pc'[p] = "done"
          /\ loc[p].anno_id # AnnoId)
         => (/\ res'[p].status \in Rejections
             /\ anno' = anno
             /\ polys' = polys)]_vars

\* Two children of the list carry the same c_poly_id.
HasDuplicateId(objects) ==
    \E i, j \in DOMAIN objects :
        /\ i < j
        /\ objects[i].c_poly_id \notin {None, Unparsable}
        /\ objects[i].c_poly_id = objects[j].c_poly_id

DuplicateIdLists == {objs \in RichObjectLists : HasDuplicateId(objs)}

\* The step ends a request of r1 with a rejection and writes nothing.
RejectedUnchanged ==
    /\ pc'["r1"] = "done"
    /\ res'["r1"].status \in Rejections
    /\ polys' = polys
    /\ anno' = anno

\* C7: the import of a document in which two children carry the same
\* c_poly_id, whatever their deleted flags and the other children, ends with a
\* rejection; no Polygon row is created or changed and the Annotation row,
\* last_edit_time included, stays as it was. (A step that is not such a
\* rejection is the import of no document with a repeated id.)
C7_DuplicateIdentity ==
    [][(pc["r1"] = "idle" /\ pc'["r1"] # "idle" /\ ~RejectedUnchanged)
       => \A objs \in DuplicateIdLists :
            ~ImportParse("r1", Doc(LatestKey(issued), objs))]_vars

\* An import was rejected because an identity came twice.
C7_Witness ==
    /\ pc["r1"] = "done"
    /\ res["r1"] = Outcome("invalid polygon", "duplicate id", 0)

\* The loop state of request p before its i-th child.
LoopBefore(p, i) ==
    ApplyPolygons(SubSeq(loc[p].anno_polygons, 1, i - 1), 1,
                  LoopStart(p, loc[p].polygons), loc[p].by_index)

\* C8: in the transaction of an import, a child whose id is that of a
\* loaded (non-deleted) Polygon is matched to that Polygon whatever its
\* position is; the pass of the loop for it compares it with that Polygon,
\* saves that row when a field differs, and touches no other row.
C8_IdentityPrecedence ==
    \A p \in Procs :
        pc[p] = "imp_apply" =>
        \A i \in DOMAIN loc[p].anno_polygons :
            LET anno_poly == loc[p].anno_polygons[i]
                before == LoopBefore(p, i)
                after == ApplyOne(anno_poly, before, loc[p].by_index)
            IN  (/\ ~before.raised
                 /\ anno_poly.id # None
                 /\ anno_poly.id \in DOMAIN loc[p].polygons)
                => /\ Match(anno_poly, before.objs, loc[p].by_index)
                        = [kind |-> "found", pk |-> anno_poly.id]
                   /\ DOMAIN after.db = DOMAIN before.db
                   /\ \A pk \in DOMAIN before.db \ {anno_poly.id} :
                        after.db[pk] = before.db[pk]
                   /\ after.db[anno_poly.id] =
                        IF PolygonChanged(before.objs[anno_poly.id], anno_poly)
                        THEN UpdatedPolygon(before.objs[anno_poly.id], anno_poly,
                                            before.now + 1)
                        ELSE before.db[anno_poly.id]

\* An import has updated Polygon 1 from a child carrying its id at a position
\* that is the anno_index of another Polygon, which it left alone.
C8_Witness ==
    /\ pc["r1"] = "done"
    /\ res["r1"] = Outcome("ok", "", 1)
    /\ Len(loc["r1"].anno_polygons) = 1
    /\ LET anno_poly == loc["r1"].anno_polygons[1]
       IN  /\ anno_poly.id = 1
           /\ anno_poly.index \in DOMAIN loc["r1"].by_index
           /\ loc["r1"].by_index[anno_poly.index] # 1
           /\ polys[1].label_as_str = anno_poly.name
           /\ polys[loc["r1"].by_index[anno_poly.index]].label_as_str
                # anno_poly.name

\* The document of request p is an export of N Polygons with one new child
\* appended: its first N children carry the ids of the N non-deleted Polygons
\* whose index is null, its last child has no id and is not deleted, and no
\* Polygon has an index but one created at position N.
AppendsOne(p) ==
    LET aps == loc[p].anno_polygons
        n == Len(aps)
        visible == VisiblePks(polys, AnnoId)
    IN  /\ n >= 1
        /\ aps[n].id = None /\ ~aps[n].deleted
        /\ \A i \in 1..(n - 1) : aps[i].id # None /\ ~aps[i].deleted
        /\ \A i, j \in 1..(n - 1) : i # j => aps[i].id # aps[j].id
        /\ {aps[i].id : i \in 1..(n - 1)}
             = {pk \in visible : polys[pk].anno_index = None}
        /\ \A pk \in visible : polys[pk].anno_index \in {None, n - 1}

\* C4: an import that appends one child without id at position N to the N
\* exported Polygons creates exactly one Polygon, with anno_index N, when no
\* Polygon has that index; when one has (the child was posted before under the
\* same edit key) it creates none and that Polygon takes the child's label.
\* Either way the Annotation then has N + 1 non-deleted Polygons.
C4_NewRecordAttribution ==
    [][(pc["r1"] = "imp_apply" /\ pc'["r1"] = "done" /\ AppendsOne("r1"))
       => LET aps == loc["r1"].anno_polygons
              n == Len(aps)
              hits == {pk \in VisiblePks(polys, AnnoId) :
                          polys[pk].anno_index = n - 1}
          IN  /\ res'["r1"].status = "ok"
              /\ IF hits = {}
                 THEN /\ Len(polys') = Len(polys) + 1
                      /\ polys'[Len(polys')].annotation = AnnoId
                      /\ polys'[Len(polys')].anno_index = n - 1
                      /\ polys'[Len(polys')].label_as_str = aps[n].name
                 ELSE /\ Len(polys') = Len(polys)
                      /\ Cardinality(hits) = 1
                      /\ \A pk \in hits :
                            /\ polys'[pk].anno_index = n - 1
                            /\ polys'[pk].label_as_str = aps[n].name
              /\ Cardinality(VisiblePks(polys', AnnoId)) = n]_vars

\* After an export of one Polygon, a second import under the same edit key
\* has matched the appended child to the Polygon the first import created and
\* changed only its label.
C4_Witness ==
    /\ pc["r1"] = "done"
    /\ res["r1"] = Outcome("ok", "", 1)
    /\ keys > 0
    /\ LET aps == loc["r1"].anno_polygons
       IN  /\ Len(aps) = 2
           /\ aps[1].id = 1
           /\ 1 \in DOMAIN loc["r1"].polygons
           /\ ~PolygonChanged(loc["r1"].polygons[1], aps[1])
           /\ aps[2].id = None
           /\ 1 \in DOMAIN loc["r1"].by_index
           /\ loc["r1"].polygons[loc["r1"].by_index[1]].label_as_str # aps[2].name
           /\ polys[loc["r1"].by_index[1]].label_as_str = aps[2].name
           /\ polys[loc["r1"].by_index[1]].anno_index = 1
           /\ Cardinality(VisiblePks(polys, AnnoId)) = 2
           /\ Len(polys) = FirstNewPk

\* C11: the stored edit key changes only in the step of an export that saves
\* the key it drew; no step of an import, accepted or rejected, changes it. So
\* the key an accepted import carried is still the stored key when it ends.
C11_ImportKeepsKey ==
    [][/\ (anno'.edit_key # anno.edit_key
            => \E p \in Procs : pc[p] = "exp_save" /\ pc'[p] = "exp_clear")
       /\ \A p \in Procs :
            (pc[p] = "imp_apply" /\ pc'[p] = "done" /\ res'[p].status = "ok")
            => ~KeyDiffers(loc[p].edit_key, anno')]_vars

\* Two imports with the same edit key were accepted one after the other, each
\* saving a Polygon and the Annotation's last_edit_time.
C11_Witness ==
    \E p \in Procs :
        /\ pc[p] = "done"
        /\ res[p] = Outcome("ok", "", 1)
        /\ nreq.imports = 2
        /\ anno.last_edit_time >= 4
        /\ anno.edit_key = loc[p].edit_key

\* C12: an export that ends at the lookup (the image does not exist, is not
\* visible, or the requester has no non-deleted Annotation of it) ends with
\* Http404 and leaves the Annotation row and every Polygon row as they were.
C12_ExportNotFound ==
    [][\A p \in Procs :
         (/\ pc[p] = "idle"
          /\ pc'[p] = "done"
          /\ nreq'.exports = nreq.exports + 1)
         => (/\ res'[p].status = "Http404"
             /\ anno' = anno
             /\ polys' = polys)]_vars

\* The stored Polygon the child is for: the non-deleted Polygon of the
\* Annotation with the child's id, or, when the child has no id, one holding
\* the child's position as its anno_index.
StoredFor(child) ==
    {pk \in VisiblePks(polys, AnnoId) :
        IF child.id # None THEN pk = child.id
        ELSE polys[pk].anno_index = child.index}

\* The child has the label, notes, occlusion, points and deleted flag of the row.
SameFields(row, child) ==
    /\ row.label_as_str = child.name
    /\ row.notes = child.attributes
    /\ row.occluded = child.occluded
    /\ row.points = child.points
    /\ row.deleted = child.deleted

\* Every child of the import of request p has a stored Polygon and equals it.
NoDiff(p) ==
    \A i \in DOMAIN loc[p].anno_polygons :
        LET child == loc[p].anno_polygons[i]
        IN  /\ StoredFor(child) # {}
            /\ \A pk \in StoredFor(child) : SameFields(polys[pk], child)

ImportEnds(p) ==
    /\ pc'[p] = "done"
    /\ \/ pc[p] \in {"imp_lock", "imp_apply"}
       \/ pc[p] = "idle" /\ nreq'.imports = nreq.imports + 1

\* C14: every import, accepted or rejected and whatever check failed, is
\* answered with the same fixed document.
C14_UniformResponse ==
    \A p \in Procs :
        (pc[p] = "done" /\ res[p].status \in Rejections \cup {"ok"})
        => PostResponse(res[p]) = [raised |-> "", content |-> "<nop/>"]

\* C14 as amended: the fixed document answers exactly the imports whose
\* transaction committed; every rejected import, whatever check failed, leaves
\* post_annotation_xml by the same exception, SuspiciousOperation, with no
\* content and nothing written.
C14_AckIffAccepted ==
    [][\A p \in Procs :
         ImportEnds(p)
         => IF pc[p] = "imp_apply" /\ ~Reconcile(p).raised
            THEN PostResponse(res'[p]) = [raised |-> "", content |-> "<nop/>"]
            ELSE /\ PostResponse(res'[p])
                      = [raised |-> "SuspiciousOperation", content |-> ""]
                 /\ anno' = anno
                 /\ polys' = polys]_vars

\* After an import that was accepted and answered, an import was rejected
\* inside its transaction and left by SuspiciousOperation.
C14_Witness ==
    /\ pc["r1"] = "done"
    /\ res["r1"].status = "xml process failed"
    /\ PostResponse(res["r1"]).raised = "SuspiciousOperation"
    /\ nreq.imports = 2
    /\ anno.last_edit_time > 0

\* The child carries an id that no non-deleted Polygon of the Annotation has.
MissingId(child) == child.id # None /\ child.id \notin VisiblePks(polys, AnnoId)

\* The child has no id and no non-deleted Polygon holds its position.
NoPosition(child) ==
    /\ child.id = None
    /\ \A pk \in VisiblePks(polys, AnnoId) : polys[pk].anno_index # child.index

\* The child is one the policy skips.
Skipped(child) == (MissingId(child) \/ NoPosition(child)) /\ child.deleted

\* C15: an import with a non-deleted child whose id is not that of a
\* non-deleted Polygon of the Annotation is rejected and writes nothing; the
\* children marked deleted whose id is not found, or that have no id and no
\* position match, are skipped: the import writes what the same document
\* without them writes, and nothing when all its children are such.
C15_MissingIdentity ==
    [][(pc["r1"] = "imp_apply" /\ pc'["r1"] = "done")
       => LET aps == loc["r1"].anno_polygons
              kept == SelectSeq(aps, LAMBDA child : ~Skipped(child))
              st == ApplyPolygons(kept, 1, LoopStart("r1", loc["r1"].polygons),
                                  loc["r1"].by_index)
          IN  /\ (\E i \in DOMAIN aps : MissingId(aps[i]) /\ ~aps[i].deleted)
                 => (/\ res'["r1"].status = "xml process failed"
                     /\ polys' = polys
                     /\ anno' = anno)
              /\ polys' = (IF st.raised THEN polys ELSE st.db)
              /\ Len(polys') <= Len(polys) + Len(kept)
              /\ kept = <<>> => (/\ res'["r1"] = Outcome("ok", "", 0)
                                 /\ polys' = polys
                                 /\ anno' = anno)]_vars

\* An import was accepted whose document held a deleted child with the id of
\* another Annotation's Polygon, skipped, and a child that was saved.
C15_Witness ==
    /\ pc["r1"] = "done"
    /\ res["r1"] = Outcome("ok", "", 1)
    /\ \E i \in DOMAIN loc["r1"].anno_polygons :
          /\ loc["r1"].anno_polygons[i].id = 2
          /\ loc["r1"].anno_polygons[i].deleted
    /\ polys[2] = InitPolys[2]

\* C16: when an import holds the row lock with its edit key equal to the
\* stored one, every non-null anno_index among the Polygon objects it loaded
\* was set by an import that carried that same edit key.
C16_IndicesSessionLocal ==
    \A p \in Procs :
        pc[p] = "imp_apply" =>
        \A pk \in DOMAIN loc[p].polygons :
            loc[p].polygons[pk].anno_index # None
            => loc[p].polygons[pk].index_key = loc[p].edit_key

\* After an export, an import reconciles against a Polygon whose index an
\* earlier import with the same edit key set.
C16_Witness ==
    \E p \in Procs :
        /\ pc[p] = "imp_apply"
        /\ loc[p].edit_key > 0
        /\ \E pk \in DOMAIN loc[p].polygons :
              /\ loc[p].polygons[pk].anno_index # None
              /\ loc[p].polygons[pk].index_key = loc[p].edit_key

\* C17: a Polygon whose anno_index was set by an import carrying the stored
\* edit key keeps that index in every step that leaves the stored key as it
\* is, the index clearing of an export whose key was already replaced
\* included; so the child posted again under that key finds its Polygon.
C17_IndexKeptUnderKey ==
    [][\A pk \in DOMAIN polys :
         (/\ polys[pk].annotation = AnnoId
          /\ polys[pk].anno_index # None
          /\ polys[pk].index_key = anno.edit_key
          /\ anno'.edit_key = anno.edit_key)
         => polys'[pk].anno_index = polys[pk].anno_index]_vars

\* Request p is an export that has stored its edit key.
HasStoredKey(p) ==
    \/ pc[p] \in {"exp_clear", "exp_build"}
    \/ pc[p] = "done" /\ res[p].status \in {"200", "AttributeError"}

\* C18: between the check of the edit key under the row lock and the end of
\* the transaction the stored edit key stays the key of the import; so when
\* an import writes, no export has yet stored a key after the import's key
\* was stored (edit keys are numbered in the order they are stored), and the
\* Polygons every such export reads afterwards are those the import left.
C18_CommitBeforeNextSession ==
    /\ [](\A q \in Procs :
            pc[q] = "imp_apply"
            => (/\ loc[q].edit_key = anno.edit_key
                /\ \A p \in Procs :
                     HasStoredKey(p) => loc[p].edit_key <= loc[q].edit_key))
    /\ [][\A p \in Procs :
            (pc[p] = "exp_build" /\ pc'[p] = "done")
            => loc'[p].polygons = PolygonsById(polys, AnnoId)]_vars

\* An export built its document while the import whose edit key it replaced
\* had committed but not yet answered; the document lists the Polygon that
\* import created.
C18_Witness ==
    \E p, q \in Procs :
        /\ pc[p] = "done" /\ res[p].status = "200"
        /\ pc[q] = "done" /\ res[q] = Outcome("ok", "", 1)
        /\ loc[q].edit_key < loc[p].edit_key
        /\ FirstNewPk \in DOMAIN loc[p].polygons
        /\ loc[p].polygons[FirstNewPk] = polys[FirstNewPk]

\* C19: in an import that is accepted, no two children are matched to the
\* same Polygon, whether by id or by position.
C19_OneChildPerRecord ==
    \A p \in Procs :
        (pc[p] = "imp_apply" /\ ~Reconcile(p).raised) =>
        \A i, j \in DOMAIN loc[p].anno_polygons :
            LET mi == Match(loc[p].anno_polygons[i], loc[p].polygons, loc[p].by_index)
                mj == Match(loc[p].anno_polygons[j], loc[p].polygons, loc[p].by_index)
            IN  (i < j /\ mi.kind = "found" /\ mj.kind = "found") => mi.pk # mj.pk

\* C20: an import with a child whose <name> has no text is rejected and
\* writes nothing, and no Polygon ever holds an empty or absent label.
C20_NonEmptyLabel ==
    /\ [](\A pk \in DOMAIN polys : polys[pk].label_as_str \notin {"", NoText})
    /\ [][\A p \in Procs :
            (/\ pc[p] = "imp_apply"
             /\ pc'[p] = "done"
             /\ \E i \in DOMAIN loc[p].anno_polygons :
                   loc[p].anno_polygons[i].name = NoText)
            => (/\ res'[p].status \in Rejections
                /\ polys' = polys
                /\ anno' = anno)]_vars

\* C21: the steps of an export that write (the save of the new edit key and
\* the clearing of the indices) change nothing of the Annotation row but its
\* edit key, so the last_edit_time, locked and deleted values another
\* operation wrote since the export read the row are kept; and they change
\* nothing of any Polygon row but the anno_index of the non-deleted Polygons
\* of the Annotation.
C21_ExportFrame ==
    [][\A p \in Procs :
         (\/ pc[p] = "exp_save" /\ pc'[p] = "exp_clear"
          \/ pc[p] = "exp_clear" /\ pc'[p] = "exp_build")
         => /\ anno' = [anno EXCEPT !.edit_key = anno'.edit_key]
            /\ Content(polys') = Content(polys)
            /\ DOMAIN polys' = DOMAIN polys
            /\ \A pk \in DOMAIN polys :
                  /\ polys'[pk].last_edit_time = polys[pk].last_edit_time
                  /\ polys'[pk].annotation = polys[pk].annotation
                  /\ pk \notin VisiblePks(polys, AnnoId)
                     => polys'[pk] = polys[pk]]_vars

====
